---- MODULE Spec2Model ----
(***************************************************************************)
(* rambo: bulk-rename media files to their embedded creation timestamp.    *)
(* The model follows rambo/src/lib.rs (run), rambo/src/rename.rs           *)
(* (rename_file), src/glob.rs (evaluate_files_from_glob_pattern) and       *)
(* rambo/src/statistics.rs.  A behaviour is two consecutive invocations    *)
(* of run() on one filesystem, each with its own dry-run flag and with     *)
(* the same remaining options.                                             *)
(*                                                                         *)
(* File names are sequences of one-character strings, so that the path     *)
(* operations of std::path (file stem, extension, set_file_name,           *)
(* set_extension, to_ascii_lowercase) are computed and not assumed.        *)
(***************************************************************************)
EXTENDS Integers, Sequences, FiniteSets, TLC

VARIABLES
    fs,            \* the filesystem: path -> entry
    fs0,           \* the filesystem when the current run started
    cwd_ok,        \* environment: std::env::current_dir() succeeds
    options,       \* RamboOptions apart from no_dry_run
    no_dry_run,    \* RamboOptions.no_dry_run of the current run
    run,           \* number of invocations of run() started so far
    pc,            \* position inside run()
    paths,         \* sorted canonical paths returned by the glob evaluation
    errors,        \* sorted paths of the discovery errors
    cursor,        \* index of the item the iterator is at
    handles,       \* paths whose MediaSource<File> is currently open
    datetime,      \* rendered timestamp of the current item
    statistics,    \* Statistics
    exit_code,     \* ExitCode returned by run()
    outcome,       \* per discovered path: its state in the pipeline
    trace,         \* what the current run has done so far
    first,         \* what the first run did
    input,         \* a function of the program under test with its arguments
    output         \* what that function returned, None before the call

vars == <<fs, fs0, cwd_ok, options, no_dry_run, run, pc, paths, errors, cursor,
          handles, datetime, statistics, exit_code, outcome, trace, first,
          input, output>>

----------------------------------------------------------------------------
(* Bounds *)

\* largest number of entries in the initial filesystem
MaxFiles == 2

\* the one directory the pattern is evaluated in
Dir == <<"p">>

\* file names present before the first run
SrcNames == { <<"a", ".", "J">>, <<"b", ".", "j">>, <<"c">> }

\* strings the template can render for a timestamp
Stems == { <<"b">>, <<"c", ".", "J">> }

SrcPaths == { [dir |-> Dir, name |-> n] : n \in SrcNames }

----------------------------------------------------------------------------
(* Characters and strings *)

\* u8::to_ascii_lowercase on the characters used
ToAsciiLowercaseChar(c) ==
    CASE c = "J" -> "j"
      [] c = "A" -> "a"
      [] c = "B" -> "b"
      [] OTHER   -> c

to_ascii_lowercase(s) == [i \in DOMAIN s |-> ToAsciiLowercaseChar(s[i])]

\* byte value of the characters used
Byte(c) ==
    CASE c = "." -> 46
      [] c = "/" -> 47
      [] c = "A" -> 65
      [] c = "B" -> 66
      [] c = "J" -> 74
      [] c = "a" -> 97
      [] c = "b" -> 98
      [] c = "c" -> 99
      [] c = "j" -> 106
      [] c = "p" -> 112

\* Ord::cmp on byte strings: s <= t
RECURSIVE BytesLeq(_, _)
BytesLeq(s, t) ==
    IF s = <<>> THEN TRUE
    ELSE IF t = <<>> THEN FALSE
    ELSE IF Byte(Head(s)) # Byte(Head(t)) THEN Byte(Head(s)) < Byte(Head(t))
    ELSE BytesLeq(Tail(s), Tail(t))

----------------------------------------------------------------------------
(* std::path *)

None == <<>>
Some(x) == <<x>>

\* index of the last "." of a file name, 0 when there is none
LastDot(name) ==
    LET dots == { i \in DOMAIN name : name[i] = "." }
    IN  IF dots = {} THEN 0 ELSE CHOOSE i \in dots : \A j \in dots : j <= i

\* Path::file_stem
file_stem(name) ==
    IF name = <<>> THEN None
    ELSE IF name = <<".", ".">> THEN Some(name)
    ELSE IF LastDot(name) <= 1 THEN Some(name)
    ELSE Some(SubSeq(name, 1, LastDot(name) - 1))

\* Path::extension
extension(name) ==
    IF name = <<>> THEN None
    ELSE IF name = <<".", ".">> THEN None
    ELSE IF LastDot(name) <= 1 THEN None
    ELSE Some(SubSeq(name, LastDot(name) + 1, Len(name)))

\* PathBuf::set_file_name with a name that has no separator
set_file_name(path, file_name) == [path EXCEPT !.name = file_name]

\* PathBuf::set_extension
set_extension(path, ext) ==
    IF file_stem(path.name) = None THEN path
    ELSE [path EXCEPT !.name = file_stem(path.name)[1]
                                 \o (IF ext = <<>> THEN <<>> ELSE <<".">> \o ext)]

\* Path::display / as_os_str
PathString(path) == path.dir \o <<"/">> \o path.name

----------------------------------------------------------------------------
(* src/glob.rs *)

\* the sort key is the path string as it is, without lowercasing
lowercase_os_str_from_path_buf_AsIs(path) == PathString(path)

\* lowercase_os_str_from_path_buf
lowercase_os_str_from_path_buf(path) == to_ascii_lowercase(PathString(path))

\* one step of the stable sort: x goes behind every element whose key is <= its key
RECURSIVE InsertByKey(_, _)
InsertByKey(sorted, x) ==
    IF sorted = <<>> THEN <<x>>
    ELSE IF BytesLeq(lowercase_os_str_from_path_buf(Head(sorted)),
                     lowercase_os_str_from_path_buf(x))
         THEN <<Head(sorted)>> \o InsertByKey(Tail(sorted), x)
         ELSE <<x>> \o sorted

\* Vec::sort_by_key(lowercase_os_str_from_path_buf): a stable sort
RECURSIVE sort_by_key(_)
sort_by_key(seq) ==
    IF seq = <<>> THEN <<>>
    ELSE InsertByKey(sort_by_key(SubSeq(seq, 1, Len(seq) - 1)), seq[Len(seq)])

\* the orders in which the glob iterator can yield a set of matched entries
YieldOrders(S) ==
    { f \in [1..Cardinality(S) -> S] : \A x \in S : \E i \in DOMAIN f : f[i] = x }

\* Path::is_symlink
is_symlink(files, path) == files[path].kind \in {"symlink", "brokenlink"}

\* Path::canonicalize following at most `hops` symbolic links: the resolved
\* path, None when the entry cannot be resolved
RECURSIVE Resolve(_, _, _)
Resolve(files, path, hops) ==
    IF path \notin DOMAIN files THEN None
    ELSE IF files[path].kind \in {"file", "dir"} THEN Some(path)
    ELSE IF files[path].kind = "symlink" /\ hops > 0
         THEN Resolve(files, [path EXCEPT !.name = files[path].target], hops - 1)
         ELSE None

\* Path::canonicalize
canonicalize(files, path) == Resolve(files, path, Cardinality(DOMAIN files))

\* glob.rs:61-63, the entry goes to the paths list
GoesToPaths(files, include_symlinks, path) ==
    /\ include_symlinks \/ ~is_symlink(files, path)
    /\ canonicalize(files, path) # None

\* glob.rs:61-78, the entry goes to the errors list
GoesToErrors(files, include_symlinks, path) ==
    /\ include_symlinks \/ ~is_symlink(files, path)
    /\ canonicalize(files, path) = None

\* the fold gives up at the first entry that cannot be canonicalized
Classify_StopsAtFailure(files, include_symlinks, yielded) ==
    LET fails  == { i \in DOMAIN yielded : GoesToErrors(files, include_symlinks, yielded[i]) }
        last   == IF fails = {} THEN Len(yielded)
                  ELSE CHOOSE i \in fails : \A j \in fails : i <= j
        seen   == SubSeq(yielded, 1, last)
        kept   == SelectSeq(seen, LAMBDA p : GoesToPaths(files, include_symlinks, p))
        failed == SelectSeq(seen, LAMBDA p : GoesToErrors(files, include_symlinks, p))
    IN  [paths  |-> [i \in DOMAIN kept |-> canonicalize(files, kept[i])[1]],
         errors |-> failed]

\* glob.rs:56-83, the fold over the glob results in the order they are yielded
Classify(files, include_symlinks, yielded) ==
    LET kept   == SelectSeq(yielded, LAMBDA p : GoesToPaths(files, include_symlinks, p))
        failed == SelectSeq(yielded, LAMBDA p : GoesToErrors(files, include_symlinks, p))
    IN  [paths  |-> [i \in DOMAIN kept |-> canonicalize(files, kept[i])[1]],
         errors |-> failed]

\* the two lists are returned in the order the fold built them
evaluate_files_from_glob_pattern_Unsorted(files, include_symlinks, yielded) ==
    [paths  |-> Classify(files, include_symlinks, yielded).paths,
     errors |-> Classify(files, include_symlinks, yielded).errors]

\* evaluate_files_from_glob_pattern for a valid pattern, given the yield order
evaluate_files_from_glob_pattern(files, include_symlinks, yielded) ==
    [paths  |-> sort_by_key(Classify(files, include_symlinks, yielded).paths),
     errors |-> sort_by_key(Classify(files, include_symlinks, yielded).errors)]

----------------------------------------------------------------------------
(* rambo/src/rename.rs *)

\* rename.rs:13-17, the path the file is renamed to
new_file_path_buf(file_path_buf, new_file_name_without_extension) ==
    LET renamed == set_file_name(file_path_buf, new_file_name_without_extension)
        ext     == extension(file_path_buf.name)
    IN  IF ext # None
        THEN set_extension(renamed, to_ascii_lowercase(ext[1]))
        ELSE renamed

\* std::fs::rename can succeed: the source exists and the target is neither a
\* directory nor an entry that cannot be accessed
RenameCanSucceed(files, from, to) ==
    /\ from \in DOMAIN files
    /\ to \in DOMAIN files => files[to].kind \notin {"dir", "denied"}

\* std::fs::rename succeeding: the target entry is replaced
FsRename(files, from, to) ==
    [p \in (DOMAIN files \ {from}) \cup {to} |->
        IF p = to THEN files[from] ELSE files[p]]

----------------------------------------------------------------------------
(* Filesystem entries *)

FileEntry(id, media, stem) ==
    [kind |-> "file", id |-> id, media |-> media, stem |-> stem, target |-> <<>>]
OtherEntry(kind) ==
    [kind |-> kind, id |-> <<>>, media |-> "none", stem |-> <<>>, target |-> <<>>]
\* a symbolic link to the entry of that name in the same directory
LinkEntry(target) ==
    [kind |-> "symlink", id |-> <<>>, media |-> "none", stem |-> <<>>, target |-> target]

\* the entries a path can hold before the first run
InitEntries(path) ==
    { FileEntry(path.name, "ok", s) : s \in Stems }
    \cup { FileEntry(path.name, "unopenable", <<>>), FileEntry(path.name, "nometa", <<>>) }
    \cup { OtherEntry("dir"), OtherEntry("brokenlink"), OtherEntry("denied") }
    \cup { LinkEntry(n) : n \in SrcNames \ {path.name} }

\* PathBuf::is_file
is_file(files, path) == path \in DOMAIN files /\ files[path].kind = "file"

\* ids of the plain files of a filesystem
FileIds(files) == { files[p].id : p \in { q \in DOMAIN files : files[q].kind = "file" } }

----------------------------------------------------------------------------
(* rambo/src/statistics.rs *)

\* Statistics::new
StatisticsNew == [skipped_files |-> 0, failed_files |-> 0, renamed_files |-> 0]

NoTrace ==
    [opens |-> 0, extractions |-> 0, rename_calls |-> 0, fs_renames |-> 0,
     discovered |-> FALSE, discovery_errors |-> 0, summaries |-> 0,
     rename_failed |-> FALSE, renamed_ids |-> {}, attempted_ids |-> {},
     skipped_ids |-> {}]

NoFirst ==
    [no_dry_run |-> FALSE, statistics |-> StatisticsNew, trace |-> NoTrace,
     exit_code |-> "none", fs0 |-> <<>>]

----------------------------------------------------------------------------
(* rambo/src/lib.rs: run *)

Init ==
    /\ \E S \in SUBSET SrcPaths :
          /\ Cardinality(S) <= MaxFiles
          /\ fs \in [S -> UNION { InitEntries(p) : p \in S }]
          /\ \A p \in S : fs[p] \in InitEntries(p)
    /\ fs0 = fs
    /\ cwd_ok \in BOOLEAN
    /\ options \in [pattern_valid : BOOLEAN, time_offset_valid : BOOLEAN,
                    include_symlinks : BOOLEAN]
    /\ no_dry_run = FALSE
    /\ run = 0
    /\ pc = "idle"
    /\ paths = <<>>
    /\ errors = <<>>
    /\ cursor = 1
    /\ handles = {}
    /\ datetime = <<>>
    /\ statistics = StatisticsNew
    /\ exit_code = "none"
    /\ outcome = <<>>
    /\ trace = NoTrace
    /\ first = NoFirst
    /\ input = None
    /\ output = None

\* run() is invoked: lib.rs:30-31
StartRun(ndr) ==
    /\ pc \in {"idle", "done"}
    /\ run < 2
    /\ run' = run + 1
    /\ no_dry_run' = ndr
    /\ first' = IF run = 1
                THEN [no_dry_run |-> no_dry_run, statistics |-> statistics,
                      trace |-> trace, exit_code |-> exit_code, fs0 |-> fs0]
                ELSE first
    /\ fs0' = fs
    /\ statistics' = StatisticsNew
    /\ paths' = <<>>
    /\ errors' = <<>>
    /\ cursor' = 1
    /\ handles' = {}
    /\ datetime' = <<>>
    /\ exit_code' = "none"
    /\ outcome' = <<>>
    /\ trace' = NoTrace
    /\ pc' = "current_dir"
    /\ UNCHANGED <<fs, cwd_ok, options>>
    /\ UNCHANGED <<input, output>>

\* lib.rs:33-39
CurrentDir ==
    /\ pc = "current_dir"
    /\ IF cwd_ok
       THEN /\ pc' = "time_offset"
            /\ UNCHANGED <<exit_code, trace>>
       ELSE /\ pc' = "done"
            /\ exit_code' = "FAILURE"
            /\ UNCHANGED trace
    /\ UNCHANGED <<fs, fs0, cwd_ok, options, no_dry_run, run, paths, errors, cursor,
                   handles, datetime, statistics, outcome, first>>
    /\ UNCHANGED <<input, output>>

\* an invalid time offset is not rejected
ParseTimeOffset_Unchecked ==
    /\ pc = "time_offset"
    /\ pc' = "glob"
    /\ UNCHANGED <<fs, fs0, cwd_ok, options, no_dry_run, run, paths, errors, cursor,
                   handles, datetime, statistics, exit_code, outcome, trace, first>>
    /\ UNCHANGED <<input, output>>

\* lib.rs:41-50
ParseTimeOffset ==
    /\ pc = "time_offset"
    /\ IF options.time_offset_valid
       THEN /\ pc' = "glob"
            /\ UNCHANGED <<exit_code, trace>>
       ELSE /\ pc' = "done"
            /\ exit_code' = "FAILURE"
            /\ UNCHANGED trace
    /\ UNCHANGED <<fs, fs0, cwd_ok, options, no_dry_run, run, paths, errors, cursor,
                   handles, datetime, statistics, outcome, first>>
    /\ UNCHANGED <<input, output>>

\* the early returns for an empty list of paths are missing
Discover_NoEarlyReturn ==
    /\ pc = "glob"
    /\ IF ~options.pattern_valid
       THEN /\ pc' = "done"
            /\ exit_code' = "FAILURE"
            /\ UNCHANGED trace
            /\ UNCHANGED <<paths, errors, statistics, outcome>>
       ELSE \E yielded \in YieldOrders(DOMAIN fs) :
            LET found == evaluate_files_from_glob_pattern(fs, options.include_symlinks, yielded)
            IN  /\ paths' = found.paths
                /\ errors' = found.errors
                /\ outcome' = [i \in DOMAIN found.paths |-> "Discovered"]
                /\ statistics' = [statistics EXCEPT
                                    !.failed_files = @ + Len(found.errors)]
                /\ trace' = [trace EXCEPT !.discovered = TRUE,
                                          !.discovery_errors = Len(found.errors)]
                /\ pc' = "loop"
                /\ exit_code' = exit_code
    /\ cursor' = 1
    /\ UNCHANGED <<fs, fs0, cwd_ok, options, no_dry_run, run, handles, datetime, first>>
    /\ UNCHANGED <<input, output>>

\* lib.rs:52-81: the glob evaluation, the discovery errors and the early returns
Discover ==
    /\ pc = "glob"
    /\ IF ~options.pattern_valid
       THEN /\ pc' = "done"
            /\ exit_code' = "FAILURE"
            /\ UNCHANGED trace
            /\ UNCHANGED <<paths, errors, statistics, outcome>>
       ELSE \E yielded \in YieldOrders(DOMAIN fs) :
            LET found == evaluate_files_from_glob_pattern(fs, options.include_symlinks, yielded)
            IN  /\ paths' = found.paths
                /\ errors' = found.errors
                /\ outcome' = [i \in DOMAIN found.paths |-> "Discovered"]
                /\ statistics' = [statistics EXCEPT
                                    !.failed_files = @ + Len(found.errors)]
                /\ trace' = [trace EXCEPT !.discovered = TRUE,
                                          !.discovery_errors = Len(found.errors)]
                /\ IF found.paths = <<>> /\ found.errors = <<>>
                   THEN pc' = "done" /\ exit_code' = "SUCCESS"
                   ELSE IF found.paths = <<>> /\ found.errors # <<>>
                   THEN pc' = "done" /\ exit_code' = "FAILURE"
                   ELSE pc' = "loop" /\ exit_code' = exit_code
    /\ cursor' = 1
    /\ UNCHANGED <<fs, fs0, cwd_ok, options, no_dry_run, run, handles, datetime, first>>
    /\ UNCHANGED <<input, output>>

\* a path that is not a plain file is counted as failed
FilterOut_CountsFailed ==
    /\ pc = "loop"
    /\ cursor <= Len(paths)
    /\ ~is_file(fs, paths[cursor])
    /\ outcome' = [outcome EXCEPT ![cursor] = "FilteredOut"]
    /\ cursor' = cursor + 1
    /\ statistics' = [statistics EXCEPT !.failed_files = @ + 1]
    /\ UNCHANGED <<fs, fs0, cwd_ok, options, no_dry_run, run, pc, paths, errors,
                   handles, datetime, exit_code, trace, first>>
    /\ UNCHANGED <<input, output>>

\* lib.rs:154, the iterator drops a path that is not a plain file
FilterOut ==
    /\ pc = "loop"
    /\ cursor <= Len(paths)
    /\ ~is_file(fs, paths[cursor])
    /\ outcome' = [outcome EXCEPT ![cursor] = "FilteredOut"]
    /\ cursor' = cursor + 1
    /\ UNCHANGED <<fs, fs0, cwd_ok, options, no_dry_run, run, pc, paths, errors,
                   handles, datetime, statistics, exit_code, trace, first>>
    /\ UNCHANGED <<input, output>>

\* a failed open ends the run instead of continuing with the next item
Open_FailureStops ==
    /\ pc = "loop"
    /\ cursor <= Len(paths)
    /\ is_file(fs, paths[cursor])
    /\ trace' = [trace EXCEPT !.opens = @ + 1]
    /\ IF fs[paths[cursor]].media # "unopenable"
       THEN /\ handles' = handles \cup {paths[cursor]}
            /\ outcome' = [outcome EXCEPT ![cursor] = "Opened"]
            /\ pc' = "opened"
            /\ UNCHANGED <<statistics, cursor, exit_code>>
       ELSE /\ statistics' = [statistics EXCEPT !.failed_files = @ + 1]
            /\ outcome' = [outcome EXCEPT ![cursor] = "OpenFailed"]
            /\ pc' = "done"
            /\ exit_code' = "FAILURE"
            /\ UNCHANGED <<handles, cursor>>
    /\ UNCHANGED <<fs, fs0, cwd_ok, options, no_dry_run, run, paths, errors,
                   datetime, first>>
    /\ UNCHANGED <<input, output>>

\* lib.rs:155-157 and 88-99: the media source of the next plain file is opened
Open ==
    /\ pc = "loop"
    /\ cursor <= Len(paths)
    /\ is_file(fs, paths[cursor])
    /\ trace' = [trace EXCEPT !.opens = @ + 1]
    /\ IF fs[paths[cursor]].media # "unopenable"
       THEN /\ handles' = handles \cup {paths[cursor]}
            /\ outcome' = [outcome EXCEPT ![cursor] = "Opened"]
            /\ pc' = "opened"
            /\ UNCHANGED <<statistics, cursor>>
       ELSE /\ statistics' = [statistics EXCEPT !.failed_files = @ + 1]
            /\ outcome' = [outcome EXCEPT ![cursor] = "OpenFailed"]
            /\ cursor' = cursor + 1
            /\ UNCHANGED <<handles, pc>>
    /\ UNCHANGED <<fs, fs0, cwd_ok, options, no_dry_run, run, paths, errors,
                   datetime, exit_code, first>>
    /\ UNCHANGED <<input, output>>

\* a failed extraction is counted and logged, but the loop does not continue
\* with the next item: the rename follows
Extract_FailureFallsThrough ==
    /\ pc = "opened"
    /\ handles' = handles \ {paths[cursor]}
    /\ trace' = [trace EXCEPT !.extractions = @ + 1]
    /\ IF fs[paths[cursor]].media = "ok"
       THEN /\ datetime' = fs[paths[cursor]].stem
            /\ outcome' = [outcome EXCEPT ![cursor] = "Extracted"]
            /\ pc' = "extracted"
            /\ UNCHANGED <<statistics, cursor>>
       ELSE /\ statistics' = [statistics EXCEPT !.failed_files = @ + 1]
            /\ outcome' = [outcome EXCEPT ![cursor] = "ExtractionFailed"]
            /\ pc' = "extracted"
            /\ datetime' = <<"b">>
            /\ UNCHANGED cursor
    /\ UNCHANGED <<fs, fs0, cwd_ok, options, no_dry_run, run, paths, errors,
                   exit_code, first>>
    /\ UNCHANGED <<input, output>>

\* the media source outlives the extraction
Extract_KeepsHandle ==
    /\ pc = "opened"
    /\ handles' = handles
    /\ trace' = [trace EXCEPT !.extractions = @ + 1]
    /\ IF fs[paths[cursor]].media = "ok"
       THEN /\ datetime' = fs[paths[cursor]].stem
            /\ outcome' = [outcome EXCEPT ![cursor] = "Extracted"]
            /\ pc' = "extracted"
            /\ UNCHANGED <<statistics, cursor>>
       ELSE /\ statistics' = [statistics EXCEPT !.failed_files = @ + 1]
            /\ outcome' = [outcome EXCEPT ![cursor] = "ExtractionFailed"]
            /\ cursor' = cursor + 1
            /\ pc' = "loop"
            /\ UNCHANGED datetime
    /\ UNCHANGED <<fs, fs0, cwd_ok, options, no_dry_run, run, paths, errors,
                   exit_code, first>>
    /\ UNCHANGED <<input, output>>

\* lib.rs:101-118: the creation datetime is extracted, the media source is
\* consumed, and the datetime is rendered with the configured offset and format
Extract ==
    /\ pc = "opened"
    /\ handles' = handles \ {paths[cursor]}
    /\ trace' = [trace EXCEPT !.extractions = @ + 1]
    /\ IF fs[paths[cursor]].media = "ok"
       THEN /\ datetime' = fs[paths[cursor]].stem
            /\ outcome' = [outcome EXCEPT ![cursor] = "Extracted"]
            /\ pc' = "extracted"
            /\ UNCHANGED <<statistics, cursor>>
       ELSE /\ statistics' = [statistics EXCEPT !.failed_files = @ + 1]
            /\ outcome' = [outcome EXCEPT ![cursor] = "ExtractionFailed"]
            /\ cursor' = cursor + 1
            /\ pc' = "loop"
            /\ UNCHANGED datetime
    /\ UNCHANGED <<fs, fs0, cwd_ok, options, no_dry_run, run, paths, errors,
                   exit_code, first>>
    /\ UNCHANGED <<input, output>>

\* the dry-run flag is tested before the paths are compared
RenameOutcome_DryRunFirst(file_path_buf, target, is_dry_run, fs_rename_ok) ==
    IF is_dry_run THEN "Renamed"
    ELSE IF file_path_buf = target THEN "Skipped"
    ELSE IF fs_rename_ok THEN "Renamed"
    ELSE "RenameFailed"

\* rename.rs:22-38, the branch rename_file takes
RenameOutcome(file_path_buf, target, is_dry_run, fs_rename_ok) ==
    IF file_path_buf = target THEN "Skipped"
    ELSE IF is_dry_run THEN "Renamed"
    ELSE IF fs_rename_ok THEN "Renamed"
    ELSE "RenameFailed"

\* the rename is performed whatever the dry-run flag
IssuesFsRename_IgnoresDryRun(file_path_buf, target, is_dry_run) ==
    file_path_buf # target

\* rename.rs:22-29, std::fs::rename is called
IssuesFsRename(file_path_buf, target, is_dry_run) ==
    /\ file_path_buf # target
    /\ ~is_dry_run

\* the skip branch forgets its counter
CountRenameOutcome_SkippedUncounted(st, oc) ==
    CASE oc = "Skipped"      -> st
      [] oc = "Renamed"      -> [st EXCEPT !.renamed_files = @ + 1]
      [] oc = "RenameFailed" -> [st EXCEPT !.failed_files = @ + 1]

\* renamed is counted before std::fs::rename is tried, failed after it failed
CountRenameOutcome_FailedAlsoRenamed(st, oc) ==
    CASE oc = "Skipped"      -> [st EXCEPT !.skipped_files = @ + 1]
      [] oc = "Renamed"      -> [st EXCEPT !.renamed_files = @ + 1]
      [] oc = "RenameFailed" -> [st EXCEPT !.renamed_files = @ + 1,
                                           !.failed_files = @ + 1]

\* rename.rs:24, 27, 32, 36, the counter each branch increments
CountRenameOutcome(st, oc) ==
    CASE oc = "Skipped"      -> [st EXCEPT !.skipped_files = @ + 1]
      [] oc = "Renamed"      -> [st EXCEPT !.renamed_files = @ + 1]
      [] oc = "RenameFailed" -> [st EXCEPT !.failed_files = @ + 1]

\* rename.rs:6-40
rename_file(file_path_buf, new_file_name_without_extension, is_dry_run, fs_rename_ok) ==
    LET target == new_file_path_buf(file_path_buf, new_file_name_without_extension)
        oc     == RenameOutcome(file_path_buf, target, is_dry_run, fs_rename_ok)
        issued == IssuesFsRename(file_path_buf, target, is_dry_run)
        id     == fs[file_path_buf].id
    IN  /\ statistics' = CountRenameOutcome(statistics, oc)
        /\ outcome' = [outcome EXCEPT ![cursor] = oc]
        /\ fs' = IF issued /\ fs_rename_ok
                 THEN FsRename(fs, file_path_buf, target)
                 ELSE fs
        /\ trace' = [trace EXCEPT
              !.rename_calls = @ + 1,
              !.fs_renames = IF issued THEN @ + 1 ELSE @,
              !.rename_failed = @ \/ (oc = "RenameFailed"),
              !.skipped_ids = IF oc = "Skipped" THEN @ \cup {id} ELSE @,
              !.attempted_ids = IF file_path_buf # target THEN @ \cup {id} ELSE @,
              !.renamed_ids = IF oc = "Renamed" THEN @ \cup {id} ELSE @]

\* lib.rs:120-126
Rename ==
    /\ pc = "extracted"
    /\ \E fs_rename_ok \in BOOLEAN :
          /\ fs_rename_ok =>
                RenameCanSucceed(fs, paths[cursor], new_file_path_buf(paths[cursor], datetime))
          /\ rename_file(paths[cursor], datetime, ~no_dry_run, fs_rename_ok)
    /\ cursor' = cursor + 1
    /\ pc' = "loop"
    /\ UNCHANGED <<fs0, cwd_ok, options, no_dry_run, run, paths, errors,
                   handles, datetime, exit_code, first>>
    /\ UNCHANGED <<input, output>>

\* the failures do not reach the exit code
ExitCodeOf_AlwaysSuccess(st) == "SUCCESS"

\* lib.rs:138-142
ExitCodeOf(st) == IF st.failed_files > 0 THEN "FAILURE" ELSE "SUCCESS"

\* lib.rs:129-142
Summary ==
    /\ pc = "loop"
    /\ cursor > Len(paths)
    /\ trace' = [trace EXCEPT !.summaries = @ + 1]
    /\ exit_code' = ExitCodeOf(statistics)
    /\ pc' = "done"
    /\ UNCHANGED <<fs, fs0, cwd_ok, options, no_dry_run, run, paths, errors, cursor,
                   handles, datetime, statistics, outcome, first>>
    /\ UNCHANGED <<input, output>>

Next ==
    \/ \E ndr \in BOOLEAN : StartRun(ndr)
    \/ CurrentDir
    \/ ParseTimeOffset
    \/ Discover
    \/ FilterOut
    \/ Open
    \/ Extract
    \/ Rename
    \/ Summary

Spec == Init /\ [][Next]_vars

\* lib.rs:87-142, the steps of the loop over the media assets and the summary
LoopSteps ==
    \/ FilterOut
    \/ Open
    \/ Extract
    \/ Rename
    \/ Summary

\* the single thread of run() keeps executing the loop until run() returns;
\* when run() is invoked is up to the user
FairSpec == Init /\ [][Next]_vars /\ WF_vars(LoopSteps)

----------------------------------------------------------------------------
(* Properties *)

\* the terminal states of the per-path state machine
Terminal ==
    {"FilteredOut", "OpenFailed", "ExtractionFailed", "Renamed", "Skipped", "RenameFailed"}

Total(st) == st.skipped_files + st.failed_files + st.renamed_files

\* item i reaches the outcome oc in this step
Reaches(i, oc) ==
    /\ run' = run
    /\ i \in DOMAIN outcome
    /\ i \in DOMAIN outcome'
    /\ outcome[i] # oc
    /\ outcome'[i] = oc

\* exactly one of the three counters goes up, by one, the other two stay
ExactlyOneCounted ==
    /\ Total(statistics') = Total(statistics) + 1
    /\ statistics'.skipped_files >= statistics.skipped_files
    /\ statistics'.failed_files >= statistics.failed_files
    /\ statistics'.renamed_files >= statistics.renamed_files

\* number of items in the given pipeline states
NumberIn(states) == Cardinality({ i \in DOMAIN outcome : outcome[i] \in states })

\* C1 as stated: every item that reaches a terminal outcome, FilteredOut
\* included, increments exactly one of the three counters by exactly 1.
C1_EveryTerminalCounted ==
    [][\A i \in DOMAIN outcome : \A oc \in Terminal :
          Reaches(i, oc) => ExactlyOneCounted]_vars

\* C1 amended: an item that reaches OpenFailed, ExtractionFailed, Renamed,
\* Skipped or RenameFailed increments exactly one of the three counters by
\* exactly 1 and leaves the other two unchanged; an item that reaches
\* FilteredOut leaves all three counters unchanged.
C1_TerminalCountedUnlessFiltered ==
    [][\A i \in DOMAIN outcome :
          /\ \A oc \in Terminal \ {"FilteredOut"} : Reaches(i, oc) => ExactlyOneCounted
          /\ Reaches(i, "FilteredOut") => statistics' = statistics]_vars

\* a directory was filtered out and another item was counted as skipped, in a
\* run whose three counters add up to one
C1_Witness ==
    /\ pc = "done"
    /\ NumberIn({"FilteredOut"}) = 1
    /\ NumberIn({"Skipped"}) = 1
    /\ Total(statistics) = 1

\* C2 as stated: no counter ever decreases during a run, and the sum of the
\* counters is at most the number of rename_file invocations plus the number
\* of discovery errors.
C2_SumWithinRenamesAndDiscoveryErrors ==
    /\ [](Total(statistics) <= trace.rename_calls + trace.discovery_errors)
    /\ [][run' = run =>
            /\ statistics'.skipped_files >= statistics.skipped_files
            /\ statistics'.failed_files >= statistics.failed_files
            /\ statistics'.renamed_files >= statistics.renamed_files]_vars

\* C2 amended: no counter ever decreases during a run, and the sum of the
\* counters is at most the number of rename_file invocations plus the number
\* of discovery errors plus the number of items whose open or extraction failed.
C2_SumWithinProcessedAndDiscoveryErrors ==
    /\ [](Total(statistics) <= trace.rename_calls + trace.discovery_errors
                                + NumberIn({"OpenFailed", "ExtractionFailed"}))
    /\ [][run' = run =>
            /\ statistics'.skipped_files >= statistics.skipped_files
            /\ statistics'.failed_files >= statistics.failed_files
            /\ statistics'.renamed_files >= statistics.renamed_files]_vars

\* a finished run with a discovery error, a failed open and a renamed item
C2_Witness ==
    /\ pc = "done"
    /\ trace.discovery_errors = 1
    /\ NumberIn({"OpenFailed", "ExtractionFailed"}) = 1
    /\ statistics.failed_files = 2

\* the item at the cursor is handed to rename_file in this step
RenameStep == pc = "extracted" /\ pc' = "loop"

\* the target rename_file constructs for the item at the cursor
CurrentTarget == new_file_path_buf(paths[cursor], datetime)

\* C3: after a no-dry-run run every file that existed before the run still
\* exists with the same content, no file was created, one successful rename
\* was performed per item counted as renamed, and every directory is where
\* it was.
C3_NoFileLost ==
    (pc = "done" /\ no_dry_run) =>
        /\ \A p \in DOMAIN fs0 :
              fs0[p].kind = "file" => \E q \in DOMAIN fs : fs[q] = fs0[p]
        /\ FileIds(fs) \subseteq FileIds(fs0)
        /\ trace.fs_renames - NumberIn({"RenameFailed"}) = statistics.renamed_files
        /\ \A p \in DOMAIN fs0 :
              fs0[p].kind = "dir" => p \in DOMAIN fs /\ fs[p] = fs0[p]

\* C4: during a dry run the filesystem stays what it was when the run
\* started, and every item whose target differs from its source increments
\* the renamed counter by one.
C4_DryRunLeavesFilesystem ==
    /\ []((run >= 1 /\ ~no_dry_run) => fs = fs0)
    /\ [][(RenameStep /\ ~no_dry_run /\ CurrentTarget # paths[cursor]) =>
            /\ statistics'.renamed_files = statistics.renamed_files + 1
            /\ fs' = fs]_vars

\* a finished dry run that counted two items as renamed
C4_Witness ==
    /\ pc = "done"
    /\ run >= 1
    /\ ~no_dry_run
    /\ statistics.renamed_files = 2
    /\ fs = fs0

\* C5: in a second no-dry-run run after a first no-dry-run run, no rename is
\* attempted for a file the first run renamed, and when the second run is
\* over every such file that still exists was classified Skipped.
C5_SecondRunSkipsRenamed ==
    (run = 2 /\ first.no_dry_run /\ no_dry_run) =>
        /\ trace.attempted_ids \cap first.trace.renamed_ids = {}
        /\ pc = "done" =>
              (first.trace.renamed_ids \cap FileIds(fs)) \subseteq trace.skipped_ids

\* C6: a dry run followed by a no-dry-run run on the same filesystem with
\* the same options, in which no std::fs::rename failed, end with the same
\* renamed counter and the same skipped counter.
C6_DryRunPreviewsRealRun ==
    (run = 2 /\ pc = "done" /\ ~first.no_dry_run /\ no_dry_run
       /\ first.fs0 = fs0 /\ ~trace.rename_failed) =>
        /\ statistics.renamed_files = first.statistics.renamed_files
        /\ statistics.skipped_files = first.statistics.skipped_files

\* C7: when the target rename_file constructs equals the source, the item is
\* Skipped, skipped goes up by one, std::fs::rename is not called and the
\* filesystem is unchanged, whatever the dry-run flag.
C7_EqualTargetIsSkipped ==
    [][(RenameStep /\ CurrentTarget = paths[cursor]) =>
          /\ outcome'[cursor] = "Skipped"
          /\ statistics' = [statistics EXCEPT !.skipped_files = @ + 1]
          /\ trace'.fs_renames = trace.fs_renames
          /\ fs' = fs]_vars

\* a file was skipped by a dry run and again by the no-dry-run run after it
C7_Witness ==
    /\ run = 2
    /\ ~first.no_dry_run
    /\ no_dry_run
    /\ first.trace.skipped_ids # {}
    /\ first.trace.skipped_ids \subseteq trace.skipped_ids

\* C8: the target has the parent directory of the source, its file stem is
\* the desired stem, and its extension is the lower-cased source extension
\* when the source has one and absent when it has none.
C8_TargetPathConstruction ==
    pc = "extracted" =>
        /\ CurrentTarget.dir = paths[cursor].dir
        /\ file_stem(CurrentTarget.name) = Some(datetime)
        /\ extension(CurrentTarget.name) =
              IF extension(paths[cursor].name) # None
              THEN Some(to_ascii_lowercase(extension(paths[cursor].name)[1]))
              ELSE None

\* C9: a run that got past the configuration checks exits with SUCCESS
\* exactly when it ends with failed = 0, zero matches with zero discovery
\* errors included; the exit is FAILURE when the pattern is invalid, when no
\* path matched but there were discovery errors, and when failed > 0.
C9_ExitCode ==
    (pc = "done" /\ run >= 1) =>
        /\ exit_code \in {"SUCCESS", "FAILURE"}
        /\ trace.discovered =>
              (exit_code = "SUCCESS" <=> statistics.failed_files = 0)
        /\ (trace.discovered /\ paths = <<>> /\ errors = <<>>) => exit_code = "SUCCESS"
        /\ ~options.pattern_valid => exit_code = "FAILURE"
        /\ (trace.discovered /\ paths = <<>> /\ errors # <<>>) => exit_code = "FAILURE"
        /\ statistics.failed_files > 0 => exit_code = "FAILURE"

\* a first run that renamed a file and exited with SUCCESS, and a second
\* run that printed its summary with a failure and exited with FAILURE
C9_Witness ==
    /\ pc = "done"
    /\ run = 2
    /\ first.exit_code = "SUCCESS"
    /\ first.statistics.renamed_files = 1
    /\ trace.summaries = 1
    /\ statistics.failed_files = 1
    /\ exit_code = "FAILURE"

\* C10: in a run whose glob pattern or time offset is invalid nothing is
\* opened, extracted or renamed and the filesystem stays as it was, the run
\* ends with FAILURE, and with an invalid time offset the glob evaluation is
\* never reached.
C10_FatalConfigurationTouchesNothing ==
    /\ (run >= 1 /\ (~options.pattern_valid \/ ~options.time_offset_valid)) =>
          /\ trace.opens = 0
          /\ trace.extractions = 0
          /\ trace.rename_calls = 0
          /\ handles = {}
          /\ fs = fs0
          /\ pc = "done" => exit_code = "FAILURE"
    /\ (run >= 1 /\ ~options.time_offset_valid) =>
          /\ pc # "glob"
          /\ ~trace.discovered

\* a no-dry-run run over a file it would rename, ended by the invalid time offset
C10_Witness ==
    /\ pc = "done"
    /\ no_dry_run
    /\ cwd_ok
    /\ options.pattern_valid
    /\ ~options.time_offset_valid
    /\ \E p \in DOMAIN fs :
          /\ fs[p].kind = "file"
          /\ fs[p].media = "ok"
          /\ new_file_path_buf(p, fs[p].stem) # p

\* the outcomes that count an item as failed
Failures == {"OpenFailed", "ExtractionFailed", "RenameFailed"}

\* C11: an item whose open, extraction or rename fails adds one to failed and
\* the loop goes on with the next item; a run that entered the loop
\* eventually prints its summary and returns with every discovered path in a
\* terminal state.
C11_BatchRunsToCompletion ==
    /\ [][\A i \in DOMAIN outcome : \A oc \in Failures :
            Reaches(i, oc) =>
                /\ statistics'.failed_files = statistics.failed_files + 1
                /\ pc' = "loop"
                /\ cursor' = i + 1]_vars
    /\ \A r \in {1, 2} :
          (run = r /\ pc = "loop") ~>
              (/\ run = r
               /\ pc = "done"
               /\ trace.summaries = 1
               /\ \A i \in DOMAIN outcome : outcome[i] \in Terminal)

\* a finished run whose first item failed and whose second item was renamed
C11_Witness ==
    /\ pc = "done"
    /\ trace.summaries = 1
    /\ Len(outcome) = 2
    /\ outcome[1] \in Failures
    /\ outcome[2] = "Renamed"

\* number of discovered paths that were plain files when they were discovered
DiscoveredPlainFiles == Cardinality({ i \in DOMAIN paths : is_file(fs0, paths[i]) })

\* C12: after a run that reached the summary, skipped + failed + renamed
\* equals the number of discovery errors plus the number of discovered paths
\* that are plain files.
C12_CompleteAccounting ==
    (pc = "done" /\ trace.summaries = 1) =>
        Total(statistics) = trace.discovery_errors + DiscoveredPlainFiles

\* C13 as stated: every run that got past the pattern and time offset
\* validation prints the summary exactly once, at the end, whatever the number
\* of matched paths and discovery errors.
C13_SummaryInEveryValidatedRun ==
    /\ trace.summaries <= 1
    /\ trace.summaries = 1 => pc = "done"
    /\ (pc = "done" /\ trace.discovered) => trace.summaries = 1

\* C13 amended: the summary is printed exactly once, at the end, in every run
\* that got past the validation and discovered at least one path; a run that
\* discovered no path returns without printing it.
C13_SummaryOnceWhenPathsFound ==
    /\ trace.summaries <= 1
    /\ trace.summaries = 1 => pc = "done"
    /\ (pc = "done" /\ run >= 1) =>
          (trace.summaries = 1 <=> (trace.discovered /\ paths # <<>>))

\* a finished run with one discovery error and one discovered path
C13_Witness ==
    /\ pc = "done"
    /\ trace.summaries = 1
    /\ trace.discovery_errors = 1
    /\ Len(paths) = 1

\* every entry the pattern matched is a directory, and there is at least one
OnlyDirectories ==
    /\ DOMAIN fs0 # {}
    /\ \A p \in DOMAIN fs0 : fs0[p].kind = "dir"

\* a discovered path is dropped by the filter in this step: nothing was opened
\* for it, no counter moves and no handle is taken
FilteredSilently ==
    \A i \in DOMAIN outcome : Reaches(i, "FilteredOut") =>
        /\ outcome[i] = "Discovered"
        /\ statistics' = statistics
        /\ trace'.opens = trace.opens
        /\ handles' = handles
        /\ exit_code' = exit_code

\* C14 as stated: a discovered path that is not a plain file is dropped before
\* any open attempt and increments no counter; when the pattern matches only
\* directories the list of paths returned by the glob evaluation is empty, all
\* counters stay zero and the run exits successfully.
C14_OnlyDirectoriesEmptyPathList ==
    /\ [][FilteredSilently]_vars
    /\ []((pc = "done" /\ trace.discovered /\ OnlyDirectories) =>
             /\ paths = <<>>
             /\ statistics = StatisticsNew
             /\ exit_code = "SUCCESS")

\* C14 amended: a discovered path that is not a plain file is dropped before
\* any open attempt and increments no counter; when the pattern matches only
\* directories the list of discovered paths holds these directories, none of
\* them is opened, all counters stay zero, the summary is printed and the run
\* exits successfully.
C14_OnlyDirectoriesNothingOpened ==
    /\ [][FilteredSilently]_vars
    /\ []((pc = "done" /\ trace.discovered /\ OnlyDirectories) =>
             /\ Len(paths) = Cardinality(DOMAIN fs0)
             /\ \A i \in DOMAIN paths : outcome[i] = "FilteredOut"
             /\ trace.opens = 0
             /\ trace.summaries = 1
             /\ statistics = StatisticsNew
             /\ exit_code = "SUCCESS")

\* a finished run over two directories
C14_Witness ==
    /\ pc = "done"
    /\ OnlyDirectories
    /\ Len(paths) = 2
    /\ \A i \in DOMAIN paths : outcome[i] = "FilteredOut"
    /\ exit_code = "SUCCESS"

\* the glob evaluation of a valid pattern returns in this step
Discovers == ~trace.discovered /\ trace'.discovered

\* the matched entries the symlink policy excludes, and the others
Excluded == { p \in DOMAIN fs : ~options.include_symlinks /\ is_symlink(fs, p) }
Classified == DOMAIN fs \ Excluded

\* number of places of the sequence s that hold x
Occurrences(s, x) == Cardinality({ i \in DOMAIN s : s[i] = x })

\* C15: when the glob evaluation of a valid pattern returns, a matched symbolic
\* link with include_symlinks false is in neither list; every other matched
\* entry is in exactly one list, the paths (by its canonical path) when it can
\* be canonicalized and the errors (by its own path) when it cannot, whatever
\* the order in which the entries are yielded and wherever the failures fall.
C15_Classification ==
    [][Discovers =>
        /\ \A p \in Excluded : Occurrences(errors', p) = 0
        /\ \A p \in Classified :
              IF canonicalize(fs, p) = None
              THEN Occurrences(errors', p) = 1
              ELSE /\ Occurrences(errors', p) = 0
                   /\ Occurrences(paths', canonicalize(fs, p)[1]) =
                         Cardinality({ q \in Classified :
                                          canonicalize(fs, q) = canonicalize(fs, p) })
        /\ Len(paths') + Len(errors') = Cardinality(Classified)
      ]_vars

\* the evaluation returned with a symbolic link left out and the other entry,
\* which cannot be canonicalized, in the errors
C15_Witness ==
    /\ run = 1
    /\ trace.discovered
    /\ ~options.include_symlinks
    /\ Cardinality(DOMAIN fs0) = 2
    /\ \E p \in DOMAIN fs0 : is_symlink(fs0, p)
    /\ Len(errors) = 1
    /\ paths = <<>>

\* C20: at most one media source is open in any reachable state; it is the one
\* of the item under the cursor, open only between that item's open and the
\* end of its extraction, so none is open while a rename is decided, while the
\* next item is fetched, or after the run.
C20_AtMostOneHandle ==
    /\ Cardinality(handles) <= 1
    /\ handles # {} => (pc = "opened" /\ cursor \in DOMAIN paths
                        /\ handles = {paths[cursor]})
    /\ pc = "opened" => outcome[cursor] = "Opened"
    /\ pc \in {"loop", "extracted", "done"} => handles = {}

\* the second file is open after the first one went through extraction and
\* rename
C20_Witness ==
    /\ pc = "opened"
    /\ cursor = 2
    /\ handles = {paths[2]}
    /\ paths[1] # paths[2]
    /\ outcome[1] \in {"Renamed", "Skipped", "RenameFailed", "ExtractionFailed"}

----------------------------------------------------------------------------
(* rambo/src/extract.rs *)

Ok(x) == [ok |-> TRUE, value |-> x]
Err(e) == [ok |-> FALSE, value |-> e]

\* extract.rs:20
EXIF_TAGS_FOR_CREATION_DATETIME_CreateDateFirst ==
    <<"CreateDate", "DateTimeOriginal", "OffsetTimeOriginal">>

\* extract.rs:20
EXIF_TAGS_FOR_CREATION_DATETIME ==
    <<"DateTimeOriginal", "OffsetTimeOriginal", "CreateDate">>

\* extract.rs:34
TRACK_INFO_TAGS_FOR_CREATION_DATETIME == <<"CreateDate">>

\* the creation datetimes a tag can hold
Times == {"2020-01-01T00:00:00+00:00", "2021-01-01T00:00:00+00:00"}

\* what the parsed metadata holds for a tag: nothing, a value that is not a
\* time, or a time
TagValues == {"absent", "notime"} \cup Times

\* get(tag) followed by as_time(): extract.rs:24-25 and 38-39
as_time(data, tag) == IF data[tag] \in Times THEN Some(data[tag]) ELSE None

\* the for loop of extract.rs:23-29 and 37-43 over the remaining tags; probed
\* records the tags looked up so far
RECURSIVE FirstTime(_, _, _, _)
FirstTime(family, data, tags, probed) ==
    IF tags = <<>> THEN [datetime |-> None, probed |-> probed]
    ELSE IF as_time(data, Head(tags)) # None
         THEN [datetime |-> as_time(data, Head(tags)),
               probed   |-> Append(probed, <<family, Head(tags)>>)]
         ELSE FirstTime(family, data, Tail(tags),
                        Append(probed, <<family, Head(tags)>>))

\* extract.rs:22-32
extract_creation_datetime_from_exif(exif) ==
    LET found == FirstTime("exif", exif, EXIF_TAGS_FOR_CREATION_DATETIME, <<>>)
    IN  [result |-> IF found.datetime # None
                    THEN Ok(found.datetime[1])
                    ELSE Err("Could not get the creation datetime from EXIF data!"),
         probed |-> found.probed]

\* extract.rs:36-46
extract_creation_datetime_from_track_info(track_info) ==
    LET found == FirstTime("track", track_info, TRACK_INFO_TAGS_FOR_CREATION_DATETIME, <<>>)
    IN  [result |-> IF found.datetime # None
                    THEN Ok(found.datetime[1])
                    ELSE Err("Could not get the creation datetime from track info data!"),
         probed |-> found.probed]

\* when the EXIF data holds no time the track info is tried as well
extract_creation_datetime_from_media_source_FallsBackToTrack(media_source) ==
    IF media_source.has_exif
    THEN IF ~media_source.parses
         THEN [result |-> Err("Failed to parse EXIF data!"), probed |-> <<>>]
         ELSE LET from_exif  == extract_creation_datetime_from_exif(media_source.exif)
                  from_track == extract_creation_datetime_from_track_info(media_source.track)
              IN  IF from_exif.result.ok \/ ~media_source.has_track
                  THEN from_exif
                  ELSE [result |-> from_track.result,
                        probed |-> from_exif.probed \o from_track.probed]
    ELSE IF media_source.has_track
    THEN IF ~media_source.parses
         THEN [result |-> Err("Failed to parse track info data!"), probed |-> <<>>]
         ELSE extract_creation_datetime_from_track_info(media_source.track)
    ELSE [result |-> Err("The media source has no EXIF or track data!"), probed |-> <<>>]

\* extract.rs:6-18
extract_creation_datetime_from_media_source(media_source) ==
    IF media_source.has_exif
    THEN IF ~media_source.parses
         THEN [result |-> Err("Failed to parse EXIF data!"), probed |-> <<>>]
         ELSE extract_creation_datetime_from_exif(media_source.exif)
    ELSE IF media_source.has_track
    THEN IF ~media_source.parses
         THEN [result |-> Err("Failed to parse track info data!"), probed |-> <<>>]
         ELSE extract_creation_datetime_from_track_info(media_source.track)
    ELSE [result |-> Err("The media source has no EXIF or track data!"), probed |-> <<>>]

----------------------------------------------------------------------------
(* rambo/src/lib.rs:114-118, chrono::DateTime<FixedOffset> in hours *)

\* the clock is set to the new offset's reading of the old clock face
with_timezone_KeepsClock(dt, time_offset) ==
    [utc |-> dt.utc + dt.offset - time_offset, offset |-> time_offset]

\* DateTime::with_timezone: the same instant seen from another offset
with_timezone(dt, time_offset) ==
    [utc |-> dt.utc, offset |-> time_offset]

\* DateTime::naive_local: the clock time at the datetime's offset
naive_local(dt) == dt.utc + dt.offset

\* DateTime::format: what a template can render, the clock time and the offset
format(dt) == [clock |-> naive_local(dt), offset |-> dt.offset]

\* lib.rs:114-118
datetime_formatted(dt, time_offset) ==
    format(IF time_offset # None
           THEN with_timezone(dt, time_offset[1])
           ELSE dt)

----------------------------------------------------------------------------
(* The functions on their own: arguments drawn from bounded sets *)

GlobNames == { <<"B", ".", "j">>, <<"a", ".", "J">>, <<"b", ".", "j">> }
GlobPaths == { [dir |-> Dir, name |-> n] : n \in GlobNames }

\* the entries a matched path can hold
GlobEntries(path) ==
    { FileEntry(path.name, "ok", <<"b">>), OtherEntry("denied") }
    \cup { LinkEntry(n) : n \in GlobNames \ {path.name} }

GlobInputs ==
    UNION { UNION { { [fn |-> "evaluate_files_from_glob_pattern", files |-> f,
                       include_symlinks |-> b, yielded |-> y] :
                         b \in BOOLEAN, y \in YieldOrders(S) } :
                    f \in { g \in [S -> UNION { GlobEntries(p) : p \in S }] :
                              \A p \in S : g[p] \in GlobEntries(p) } } :
            S \in SUBSET GlobPaths }

MediaSources ==
    [has_exif : BOOLEAN, has_track : BOOLEAN, parses : BOOLEAN,
     exif : [{"DateTimeOriginal", "OffsetTimeOriginal", "CreateDate"} -> TagValues],
     track : [{"CreateDate"} -> TagValues]]

ExtractInputs ==
    { [fn |-> "extract_creation_datetime_from_media_source", media_source |-> m] :
        m \in MediaSources }

\* instants and offsets, in hours
Instants == {0, 20}
Offsets == {-1, 0, 5}

FormatInputs ==
    { [fn |-> "datetime_formatted", datetime |-> [utc |-> u, offset |-> e],
       time_offset |-> t] :
        u \in Instants, e \in Offsets, t \in {None} \cup { Some(o) : o \in Offsets } }

FunctionInit ==
    /\ input \in GlobInputs \cup ExtractInputs \cup FormatInputs
    /\ output = None
    /\ fs = <<>>
    /\ fs0 = <<>>
    /\ cwd_ok = TRUE
    /\ options = [pattern_valid |-> TRUE, time_offset_valid |-> TRUE,
                  include_symlinks |-> FALSE]
    /\ no_dry_run = FALSE
    /\ run = 0
    /\ pc = "idle"
    /\ paths = <<>>
    /\ errors = <<>>
    /\ cursor = 1
    /\ handles = {}
    /\ datetime = <<>>
    /\ statistics = StatisticsNew
    /\ exit_code = "none"
    /\ outcome = <<>>
    /\ trace = NoTrace
    /\ first = NoFirst

\* glob.rs:38-89 applied to the matched entries
CallEvaluateFilesFromGlobPattern ==
    /\ output = None
    /\ input.fn = "evaluate_files_from_glob_pattern"
    /\ output' = Some(evaluate_files_from_glob_pattern(
                         input.files, input.include_symlinks, input.yielded))
    /\ UNCHANGED <<fs, fs0, cwd_ok, options, no_dry_run, run, pc, paths, errors,
                   cursor, handles, datetime, statistics, exit_code, outcome,
                   trace, first, input>>

\* extract.rs:6-18 applied to the media source
CallExtractCreationDatetime ==
    /\ output = None
    /\ input.fn = "extract_creation_datetime_from_media_source"
    /\ output' = Some(extract_creation_datetime_from_media_source(input.media_source))
    /\ UNCHANGED <<fs, fs0, cwd_ok, options, no_dry_run, run, pc, paths, errors,
                   cursor, handles, datetime, statistics, exit_code, outcome,
                   trace, first, input>>

\* lib.rs:114-118 applied to the extracted datetime
CallDatetimeFormatted ==
    /\ output = None
    /\ input.fn = "datetime_formatted"
    /\ output' = Some(datetime_formatted(input.datetime, input.time_offset))
    /\ UNCHANGED <<fs, fs0, cwd_ok, options, no_dry_run, run, pc, paths, errors,
                   cursor, handles, datetime, statistics, exit_code, outcome,
                   trace, first, input>>

FunctionNext ==
    \/ CallEvaluateFilesFromGlobPattern
    \/ CallExtractCreationDatetime
    \/ CallDatetimeFormatted

FunctionSpec == FunctionInit /\ [][FunctionNext]_vars

----------------------------------------------------------------------------
(* Properties of the functions *)

\* the function fn has returned
Returned(fn) == input # None /\ input.fn = fn /\ output # None

\* adjacent elements are in ascending order of their lowercased path strings
SortedByLowercase(list) ==
    \A i \in 1..(Len(list) - 1) :
        BytesLeq(to_ascii_lowercase(PathString(list[i])),
                 to_ascii_lowercase(PathString(list[i + 1])))

\* place of the first occurrence of the name in the list, 0 when absent
IndexOfName(list, name) ==
    LET at == { i \in DOMAIN list : list[i].name = name }
    IN  IF at = {} THEN 0 ELSE CHOOSE i \in at : \A j \in at : i <= j

\* C16: both lists returned by evaluate_files_from_glob_pattern are in ascending
\* order of the lowercased path string, so that a.J comes before B.j whenever
\* both are in the same list.
C16_SortedByLowercase ==
    Returned("evaluate_files_from_glob_pattern") =>
        \A list \in {output[1].paths, output[1].errors} :
            /\ SortedByLowercase(list)
            /\ (IndexOfName(list, <<"a", ".", "J">>) > 0 /\ IndexOfName(list, <<"B", ".", "j">>) > 0)
                  => IndexOfName(list, <<"a", ".", "J">>) < IndexOfName(list, <<"B", ".", "j">>)

\* B.j was yielded before a.J, both are plain files, and a.J is returned first
C16_Witness ==
    /\ Returned("evaluate_files_from_glob_pattern")
    /\ Len(input.yielded) = 2
    /\ input.yielded[1].name = <<"B", ".", "j">>
    /\ input.yielded[2].name = <<"a", ".", "J">>
    /\ Len(output[1].paths) = 2
    /\ output[1].paths[1].name = <<"a", ".", "J">>
    /\ output[1].paths[2].name = <<"B", ".", "j">>

\* the priority order of the EXIF tags, as the contract fixes it
ExifPriority == <<"DateTimeOriginal", "OffsetTimeOriginal", "CreateDate">>

\* places in the priority order whose tag is present with a parseable time
ParseablePlaces(exif) == { i \in DOMAIN ExifPriority : exif[ExifPriority[i]] \in Times }

\* C17: for parsed EXIF data the result is the time of the first tag, in the
\* order DateTimeOriginal, OffsetTimeOriginal, CreateDate, that is present with
\* a parseable time; absent and unparseable tags are skipped, a later tag never
\* wins over an earlier parseable one, and without any parseable tag the
\* extraction fails.
C17_ExifTagPriority ==
    (/\ Returned("extract_creation_datetime_from_media_source")
     /\ input.media_source.has_exif
     /\ input.media_source.parses) =>
        LET exif   == input.media_source.exif
            places == ParseablePlaces(exif)
            best   == CHOOSE i \in places : \A j \in places : i <= j
        IN  IF places = {}
            THEN ~output[1].result.ok
            ELSE output[1].result = Ok(exif[ExifPriority[best]])

\* DateTimeOriginal and CreateDate hold different times, OffsetTimeOriginal a
\* value that is not a time: the result is the DateTimeOriginal time
C17_Witness ==
    /\ Returned("extract_creation_datetime_from_media_source")
    /\ input.media_source.has_exif
    /\ input.media_source.parses
    /\ input.media_source.exif["DateTimeOriginal"] = "2020-01-01T00:00:00+00:00"
    /\ input.media_source.exif["OffsetTimeOriginal"] = "notime"
    /\ input.media_source.exif["CreateDate"] = "2021-01-01T00:00:00+00:00"
    /\ output[1].result = Ok("2020-01-01T00:00:00+00:00")

\* C18: a media source with EXIF has only EXIF tags probed, never the track
\* info, even when no EXIF tag holds a time; one without EXIF but with track
\* info has only the track's CreateDate probed; one with neither fails with the
\* no-metadata error and nothing probed; and when the applicable tag list is
\* gone through without a parseable time the extraction fails with that
\* family's tag-not-found error.
C18_FamilyDispatch ==
    Returned("extract_creation_datetime_from_media_source") =>
        LET m == input.media_source
            r == output[1]
        IN  /\ m.has_exif =>
                  \A i \in DOMAIN r.probed : r.probed[i][1] = "exif"
            /\ (~m.has_exif /\ m.has_track) =>
                  \A i \in DOMAIN r.probed : r.probed[i] = <<"track", "CreateDate">>
            /\ (~m.has_exif /\ ~m.has_track) =>
                  /\ r.probed = <<>>
                  /\ r.result = Err("The media source has no EXIF or track data!")
            /\ (m.has_exif /\ m.parses /\ ParseablePlaces(m.exif) = {}) =>
                  /\ Len(r.probed) = Len(ExifPriority)
                  /\ r.result = Err("Could not get the creation datetime from EXIF data!")
            /\ (~m.has_exif /\ m.has_track /\ m.parses /\ m.track["CreateDate"] \notin Times) =>
                  /\ r.probed = << <<"track", "CreateDate">> >>
                  /\ r.result = Err("Could not get the creation datetime from track info data!")

\* EXIF without any time, track info with a time: the three EXIF tags were
\* probed, the track info was not, and the extraction failed
C18_Witness ==
    /\ Returned("extract_creation_datetime_from_media_source")
    /\ input.media_source.has_exif
    /\ input.media_source.has_track
    /\ input.media_source.parses
    /\ ParseablePlaces(input.media_source.exif) = {}
    /\ input.media_source.track["CreateDate"] \in Times
    /\ Len(output[1].probed) = 3
    /\ ~output[1].result.ok

\* C19: with a configured time offset the rendered clock time is the extracted
\* instant read at the configured offset, whatever the embedded offset (an
\* embedded +00:00 with +05:00 configured reads five hours later); without one
\* the clock time and the offset are the embedded ones.
C19_OffsetOverride ==
    Returned("datetime_formatted") =>
        LET dt == input.datetime
            t  == input.time_offset
            r  == output[1]
        IN  IF t # None
            THEN /\ r.offset = t[1]
                 /\ r.clock = dt.utc + t[1]
                 /\ (dt.offset = 0 /\ t[1] = 5) => r.clock = (dt.utc + dt.offset) + 5
                 /\ \A e \in Offsets :
                       datetime_formatted([utc |-> dt.utc, offset |-> e], t) = r
            ELSE /\ r.offset = dt.offset
                 /\ r.clock = dt.utc + dt.offset

\* embedded offset +00:00 at clock time 20, configured +05:00: rendered as 25
C19_Witness ==
    /\ Returned("datetime_formatted")
    /\ input.datetime = [utc |-> 20, offset |-> 0]
    /\ input.time_offset = Some(5)
    /\ output[1] = [clock |-> 25, offset |-> 5]

----------------------------------------------------------------------------
(* Order of the stages *)

\* the stages an item is in between its turn and its terminal outcome
InProgress == {"Opened", "Extracted"}

\* C21: nothing is opened, extracted or renamed before the discovery has
\* returned its sorted lists and the discovery errors are counted; the lists
\* then stay as they are; the items are taken in the order of the sorted list,
\* one at a time: every item before the cursor has its terminal outcome, every
\* item after it is untouched, and only the item under the cursor can be
\* between its open and its rename.
C21_StageOrdering ==
    /\ [](trace.opens + trace.extractions + trace.rename_calls > 0 =>
             /\ trace.discovered
             /\ trace.discovery_errors = Len(errors)
             /\ statistics.failed_files >= Len(errors))
    /\ [](trace.discovered =>
             /\ SortedByLowercase(paths)
             /\ SortedByLowercase(errors)
             /\ DOMAIN outcome = DOMAIN paths
             /\ \A i \in DOMAIN paths :
                   /\ i < cursor => outcome[i] \in Terminal
                   /\ i > cursor => outcome[i] = "Discovered"
                   /\ i = cursor => outcome[i] \in InProgress \cup {"Discovered"}
             /\ pc = "opened" => (cursor \in DOMAIN paths /\ outcome[cursor] = "Opened")
             /\ pc = "extracted" => (cursor \in DOMAIN paths /\ outcome[cursor] = "Extracted"))
    /\ [][(trace.discovered /\ run' = run) =>
             /\ paths' = paths
             /\ errors' = errors
             /\ cursor' \in {cursor, cursor + 1}
             /\ cursor' = cursor + 1 => outcome'[cursor] \in Terminal]_vars

\* the second of two different paths is extracted after the first went through
\* all its stages
C21_Witness ==
    /\ pc = "extracted"
    /\ cursor = 2
    /\ Len(paths) = 2
    /\ paths[1] # paths[2]
    /\ outcome[1] \in {"Renamed", "Skipped", "RenameFailed"}
    /\ outcome[2] = "Extracted"

----------------------------------------------------------------------------
(* Renames follow extractions *)

\* what rename_file can make of an item
RenameOutcomes == {"Renamed", "Skipped", "RenameFailed"}

\* ids of the plain files of the run's start whose open or extraction fails
Unextractable ==
    { fs0[p].id : p \in { q \in DOMAIN fs0 : fs0[q].kind = "file" /\ fs0[q].media # "ok" } }

\* C23: rename_file is called for an item only when its extraction has just
\* returned a timestamp, an item whose open or extraction failed keeps that
\* outcome, and no file whose open or extraction fails is renamed, or even
\* handed to rename_file, in the run.
C23_RenamedOnlyAfterExtraction ==
    /\ [][/\ trace'.rename_calls > trace.rename_calls =>
                (pc = "extracted" /\ outcome[cursor] = "Extracted")
          /\ \A i \in DOMAIN outcome : \A oc \in RenameOutcomes :
                Reaches(i, oc) => outcome[i] = "Extracted"
          /\ \A i \in DOMAIN outcome :
                (run' = run /\ outcome[i] \in {"OpenFailed", "ExtractionFailed"}) =>
                    outcome'[i] = outcome[i]]_vars
    /\ [](/\ trace.renamed_ids \cap Unextractable = {}
          /\ trace.attempted_ids \cap Unextractable = {}
          /\ trace.skipped_ids \cap Unextractable = {}
          /\ trace.rename_calls <= trace.extractions)

\* a real run is over: the first file failed and is where it was, the second
\* was renamed
C23_Witness ==
    /\ pc = "done"
    /\ no_dry_run
    /\ Len(outcome) = 2
    /\ outcome[1] \in {"OpenFailed", "ExtractionFailed"}
    /\ outcome[2] = "Renamed"
    /\ paths[1] \in DOMAIN fs
    /\ fs[paths[1]] = fs0[paths[1]]
    /\ trace.renamed_ids # {}

====
